---- MODULE Spec2Model ----
(***************************************************************************)
(* Verification model of jwt_with_ring's verifier module                   *)
(* (src/src/verifier.rs): SignatureVerifiedJwt, PublicKeyVerifier and      *)
(* HmacVerifier, together with the parts of the crate they call            *)
(* (UnverifiedJwt, Error, the base64url codec and ring's primitives).      *)
(***************************************************************************)
EXTENDS Integers, Sequences, FiniteSets, TLC

\* ------------------------------------------------------------------ bounds
\* longest raw token string the caller hands to UnverifiedJwt::with_str
MaxRawLen == 6
\* most SignatureVerifiedJwt handles the caller keeps alive at once
MaxHandles == 2

\* ------------------------------------------------------------------ state
VARIABLES
    jwt,        \* the caller's UnverifiedJwt, or NoJwt
    handles,    \* the SignatureVerifiedJwt values the caller holds, oldest first
    verifiers,  \* the constructed verifiers, by name
    result,     \* the last call: what was called, with what, and what it returned
    outcomes,   \* history: per verifier, the outcomes of its verify calls on jwt
    accepted    \* history: the verifiers that had accepted the token jwt was
                \* tampered from

vars == << jwt, handles, verifiers, result, outcomes, accepted >>

\* --------------------------------------------------------------- alphabet
\* Two characters of the URL-safe base64 alphabet ("A" = 0, "g" = 32), one
\* character outside it, and the segment separator.
B64Alphabet == {"A", "g"}
Chars == B64Alphabet \cup {"$", "."}

B64Value(c) == CASE c = "A" -> 0 [] c = "g" -> 32

Ascii(c) == CASE c = "A" -> 65 [] c = "g" -> 103 [] c = "$" -> 36 [] c = "." -> 46

\* str::as_bytes
as_bytes(s) == [i \in 1..Len(s) |-> Ascii(s[i])]

RawStrings == UNION {[1..n -> Chars] : n \in 0..MaxRawLen}

\* ----------------------------------------------------------------- Result
Unit == "()"
Ok(v) == [ok |-> TRUE, val |-> v]
Err(e) == [ok |-> FALSE, err |-> e]

\* crate::error::Error kinds
MalformedToken == "MalformedToken"
InvalidEncoding == "InvalidEncoding"
invalid_signature == "InvalidSignature"

\* ------------------------------------------------------- base64url codec
\* base64::decode_config(segment, URL_SAFE_NO_PAD): bytes of the complete
\* 4-character groups, then of a trailing group of 2 or 3 characters.
RECURSIVE B64Bytes(_)
B64Bytes(v) ==
    IF Len(v) = 0 THEN <<>>
    ELSE IF Len(v) = 2 THEN << v[1] * 4 + (v[2] \div 16) >>
    ELSE IF Len(v) = 3 THEN << v[1] * 4 + (v[2] \div 16),
                               (v[2] % 16) * 16 + (v[3] \div 4) >>
    ELSE << v[1] * 4 + (v[2] \div 16),
            (v[2] % 16) * 16 + (v[3] \div 4),
            (v[3] % 4) * 64 + v[4] >> \o B64Bytes(SubSeq(v, 5, Len(v)))

base64_decode(segment) ==
    IF \E i \in 1..Len(segment) : segment[i] \notin B64Alphabet
    THEN Err(InvalidEncoding)
    ELSE IF Len(segment) % 4 = 1
    THEN Err(InvalidEncoding)
    ELSE Ok(B64Bytes([i \in 1..Len(segment) |-> B64Value(segment[i])]))

\* ---------------------------------------------------------- UnverifiedJwt
NoJwt == [none |-> TRUE]

\* str::split('.')
RECURSIVE Split(_)
Split(s) ==
    IF \A i \in 1..Len(s) : s[i] # "." THEN << s >>
    ELSE LET d == CHOOSE i \in 1..Len(s) :
                      s[i] = "." /\ \A j \in 1..(i - 1) : s[j] # "."
         IN << SubSeq(s, 1, d - 1) >> \o Split(SubSeq(s, d + 1, Len(s)))

\* UnverifiedJwt::with_str
with_str(raw) ==
    LET parts == Split(raw)
    IN  IF Len(parts) # 3 \/ \E i \in 1..Len(parts) : Len(parts[i]) = 0
        THEN Err(MalformedToken)
        ELSE Ok([header      |-> parts[1],
                 claims      |-> parts[2],
                 signature   |-> parts[3],
                 signed_data |-> SubSeq(raw, 1, Len(parts[1]) + 1 + Len(parts[2]))])

UnverifiedJwt_encoded_header(self) == self.header
UnverifiedJwt_encoded_claims(self) == self.claims
UnverifiedJwt_encoded_signature(self) == self.signature
UnverifiedJwt_signed_data(self) == self.signed_data
UnverifiedJwt_decode_header(self) == base64_decode(self.header)
UnverifiedJwt_decode_claims(self) == base64_decode(self.claims)
UnverifiedJwt_decode_signature(self) == base64_decode(self.signature)

\* The raw string a parsed token was sliced from.
RawOf(jwt_) == jwt_.header \o <<".">> \o jwt_.claims \o <<".">> \o jwt_.signature

\* ------------------------------------------------------ ring's primitives
\* ring is a trusted black box.  It is idealised as a deterministic tag
\* function of (key, message): a signature is accepted exactly when it is
\* the tag of the message under the key.  The tag space is the set of
\* one-byte signatures the model's base64url alphabet can encode, and the
\* digest tells apart any two messages that differ in one byte.
TagBytes == << 0, 2, 128, 130 >>

RECURSIVE Digest(_)
Digest(msg) == IF Len(msg) = 0 THEN 0 ELSE Head(msg) + Digest(Tail(msg))

AlgSalt(algorithm) == CASE algorithm = "HMAC_SHA256" -> 0 [] algorithm = "ED25519" -> 2

Tag(key, msg) ==
    << TagBytes[((AlgSalt(key.algorithm) + key.material + Digest(msg)) % Len(TagBytes)) + 1] >>

\* ring::hmac::verify(key, data, tag) -> Result<(), error::Unspecified>
hmac_verify(key, data, tag) ==
    IF tag = Tag(key, data) THEN Ok(Unit) ELSE Err("Unspecified")

\* ring::signature::UnparsedPublicKey::verify(message, signature)
public_key_verify(public_key, message, signature) ==
    IF signature = Tag(public_key, message) THEN Ok(Unit) ELSE Err("Unspecified")

\* One invocation of a signature primitive, as seen by the primitive.
PrimCall(key, msg, sig) == [key |-> key, msg |-> msg, sig |-> sig]

\* -------------------------------------------------------------- verifiers
HmacIds == {"hmacA", "hmacB"}
PkIds == {"pkA"}
VerifierIds == HmacIds \cup PkIds

\* HmacVerifier::with_key
with_key(key) == [key |-> key]
\* PublicKeyVerifier::with_public_key
with_public_key(public_key) == [public_key |-> public_key]

KeyOf(v, vs) == IF v \in HmacIds THEN vs[v].key ELSE vs[v].public_key

\* Each of the four verification functions returns the Result the code
\* returns (ret) and the primitive invocations it made on the way (prim).

\* Variant: the primitive's own error is handed on to the caller.
HmacVerifier_verify_data_passing_error(self, signed_data, decoded_signature) ==
    [ret  |-> hmac_verify(self.key, signed_data, decoded_signature),
     prim |-> << PrimCall(self.key, signed_data, decoded_signature) >>]

\* HmacVerifier::verify_data_with_decoded_signature
HmacVerifier_verify_data_with_decoded_signature(self, signed_data, decoded_signature) ==
    [ret  |-> IF hmac_verify(self.key, signed_data, decoded_signature).ok
              THEN Ok(Unit)
              ELSE Err(invalid_signature),
     prim |-> << PrimCall(self.key, signed_data, decoded_signature) >>]

\* PublicKeyVerifier::verify_data_with_decoded_signature
PublicKeyVerifier_verify_data_with_decoded_signature(self, signed_data, decoded_signature) ==
    [ret  |-> IF public_key_verify(self.public_key, signed_data, decoded_signature).ok
              THEN Ok(Unit)
              ELSE Err(invalid_signature),
     prim |-> << PrimCall(self.public_key, signed_data, decoded_signature) >>]

\* Variant: the handle is built whatever the signature check returned.
HmacVerifier_verify_unchecked(self, unverified_jwt) ==
    LET signed_data == as_bytes(UnverifiedJwt_signed_data(unverified_jwt))
        decoded_signature == UnverifiedJwt_decode_signature(unverified_jwt)
    IN  IF ~decoded_signature.ok
        THEN [ret |-> decoded_signature, prim |-> << >>]
        ELSE LET r == HmacVerifier_verify_data_with_decoded_signature(
                          self, signed_data, decoded_signature.val)
             IN  [ret  |-> Ok([unverified_jwt |-> unverified_jwt]),
                  prim |-> r.prim]

\* Variant: the claims segment alone is checked against the signature.
HmacVerifier_verify_claims_only(self, unverified_jwt) ==
    LET signed_data == as_bytes(unverified_jwt.claims)
        decoded_signature == UnverifiedJwt_decode_signature(unverified_jwt)
    IN  IF ~decoded_signature.ok
        THEN [ret |-> decoded_signature, prim |-> << >>]
        ELSE LET r == HmacVerifier_verify_data_with_decoded_signature(
                          self, signed_data, decoded_signature.val)
             IN  [ret  |-> IF r.ret.ok
                           THEN Ok([unverified_jwt |-> unverified_jwt])
                           ELSE r.ret,
                  prim |-> r.prim]

\* Variant: the header segment alone is checked against the signature.
HmacVerifier_verify_header_only(self, unverified_jwt) ==
    LET signed_data == as_bytes(unverified_jwt.header)
        decoded_signature == UnverifiedJwt_decode_signature(unverified_jwt)
    IN  IF ~decoded_signature.ok
        THEN [ret |-> decoded_signature, prim |-> << >>]
        ELSE LET r == HmacVerifier_verify_data_with_decoded_signature(
                          self, signed_data, decoded_signature.val)
             IN  [ret  |-> IF r.ret.ok
                           THEN Ok([unverified_jwt |-> unverified_jwt])
                           ELSE r.ret,
                  prim |-> r.prim]

\* Variant: a signature that does not decode is checked as an empty one.
HmacVerifier_verify_decode_unwrap_or_default(self, unverified_jwt) ==
    LET signed_data == as_bytes(UnverifiedJwt_signed_data(unverified_jwt))
        decoded_signature == UnverifiedJwt_decode_signature(unverified_jwt)
        r == HmacVerifier_verify_data_with_decoded_signature(
                 self, signed_data,
                 IF decoded_signature.ok THEN decoded_signature.val ELSE << >>)
    IN  [ret  |-> IF r.ret.ok
                  THEN Ok([unverified_jwt |-> unverified_jwt])
                  ELSE r.ret,
         prim |-> r.prim]

\* Variant: a token that already has a verified handle is refused.
HmacVerifier_verify_once(self, unverified_jwt) ==
    LET signed_data == as_bytes(UnverifiedJwt_signed_data(unverified_jwt))
        decoded_signature == UnverifiedJwt_decode_signature(unverified_jwt)
    IN  IF ~decoded_signature.ok
        THEN [ret |-> decoded_signature, prim |-> << >>]
        ELSE LET r == HmacVerifier_verify_data_with_decoded_signature(
                          self, signed_data, decoded_signature.val)
             IN  [ret  |-> IF r.ret.ok /\ Len(handles) = 0
                           THEN Ok([unverified_jwt |-> unverified_jwt])
                           ELSE Err(invalid_signature),
                  prim |-> r.prim]

\* Variant: the claims segment is decoded before the signature is checked.
HmacVerifier_verify_decoding_claims(self, unverified_jwt) ==
    LET signed_data == as_bytes(UnverifiedJwt_signed_data(unverified_jwt))
        decoded_claims == UnverifiedJwt_decode_claims(unverified_jwt)
        decoded_signature == UnverifiedJwt_decode_signature(unverified_jwt)
    IN  IF ~decoded_claims.ok
        THEN [ret |-> decoded_claims, prim |-> << >>]
        ELSE IF ~decoded_signature.ok
        THEN [ret |-> decoded_signature, prim |-> << >>]
        ELSE LET r == HmacVerifier_verify_data_with_decoded_signature(
                          self, signed_data, decoded_signature.val)
             IN  [ret  |-> IF r.ret.ok
                           THEN Ok([unverified_jwt |-> unverified_jwt])
                           ELSE r.ret,
                  prim |-> r.prim]

\* HmacVerifier::verify
HmacVerifier_verify(self, unverified_jwt) ==
    LET signed_data == as_bytes(UnverifiedJwt_signed_data(unverified_jwt))
        decoded_signature == UnverifiedJwt_decode_signature(unverified_jwt)
    IN  IF ~decoded_signature.ok
        THEN [ret |-> decoded_signature, prim |-> << >>]
        ELSE LET r == HmacVerifier_verify_data_with_decoded_signature(
                          self, signed_data, decoded_signature.val)
             IN  [ret  |-> IF r.ret.ok
                           THEN Ok([unverified_jwt |-> unverified_jwt])
                           ELSE r.ret,
                  prim |-> r.prim]

\* PublicKeyVerifier::verify
PublicKeyVerifier_verify(self, unverified_jwt) ==
    LET signed_data == as_bytes(UnverifiedJwt_signed_data(unverified_jwt))
        decoded_signature == UnverifiedJwt_decode_signature(unverified_jwt)
    IN  IF ~decoded_signature.ok
        THEN [ret |-> decoded_signature, prim |-> << >>]
        ELSE LET r == PublicKeyVerifier_verify_data_with_decoded_signature(
                          self, signed_data, decoded_signature.val)
             IN  [ret  |-> IF r.ret.ok
                           THEN Ok([unverified_jwt |-> unverified_jwt])
                           ELSE r.ret,
                  prim |-> r.prim]

\* --------------------------------------------------- SignatureVerifiedJwt
SignatureVerifiedJwt_decode_header(self) == UnverifiedJwt_decode_header(self.unverified_jwt)
SignatureVerifiedJwt_decode_claims(self) == UnverifiedJwt_decode_claims(self.unverified_jwt)
SignatureVerifiedJwt_decode_signature(self) == UnverifiedJwt_decode_signature(self.unverified_jwt)
\* Variant: the signed data is rebuilt from the segments, without the separator.
SignatureVerifiedJwt_signed_data_joined(self) ==
    UnverifiedJwt_encoded_header(self.unverified_jwt) \o self.unverified_jwt.claims
SignatureVerifiedJwt_signed_data(self) == UnverifiedJwt_signed_data(self.unverified_jwt)
SignatureVerifiedJwt_encoded_header(self) == UnverifiedJwt_encoded_header(self.unverified_jwt)
\* Variant: the field read directly is the wrong one.
SignatureVerifiedJwt_encoded_claims_other_field(self) == self.unverified_jwt.header
SignatureVerifiedJwt_encoded_claims(self) == self.unverified_jwt.claims
SignatureVerifiedJwt_encoded_signature(self) == UnverifiedJwt_encoded_signature(self.unverified_jwt)

\* ---------------------------------------------------------------- actions
Call(op, verifier, args, ret, prim) ==
    [op |-> op, verifier |-> verifier, args |-> args, ret |-> ret, prim |-> prim]

NoVerifier == "-"
NoOutcomes == [v \in VerifierIds |-> {}]

OutcomeOf(ret) == IF ret.ok THEN "Ok" ELSE ret.err

Init ==
    /\ jwt = NoJwt
    /\ handles = << >>
    /\ verifiers =
         [v \in VerifierIds |->
            CASE v = "hmacA" -> with_key([algorithm |-> "HMAC_SHA256", material |-> 0])
              [] v = "hmacB" -> with_key([algorithm |-> "HMAC_SHA256", material |-> 1])
              [] v = "pkA"   -> with_public_key([algorithm |-> "ED25519", material |-> 0])]
    /\ result = Call("new", NoVerifier, << >>, Ok(Unit), << >>)
    /\ outcomes = NoOutcomes
    /\ accepted = {}

\* The raw strings the caller may parse next: it holds one token at a time.
RawInputs == IF jwt = NoJwt THEN RawStrings ELSE {}

\* The caller parses a raw string; a parsed token becomes the caller's token.
WithStr(raw) ==
    /\ jwt = NoJwt
    /\ LET r == with_str(raw)
       IN  /\ jwt' = IF r.ok THEN r.val ELSE NoJwt
           /\ result' = Call("with_str", NoVerifier, << >>, r, << >>)
    /\ UNCHANGED << handles, verifiers, outcomes, accepted >>

\* The token goes out of scope, and with it every handle borrowing it.
DropJwt ==
    /\ jwt # NoJwt
    /\ jwt' = NoJwt
    /\ handles' = << >>
    /\ result' = Call("drop", NoVerifier, << >>, Ok(Unit), << >>)
    /\ outcomes' = NoOutcomes
    /\ accepted' = {}
    /\ UNCHANGED verifiers

\* A handle goes out of scope.
DropHandle ==
    /\ Len(handles) > 0
    /\ handles' = Tail(handles)
    /\ result' = Call("drop_handle", NoVerifier, << >>, Ok(Unit), << >>)
    /\ UNCHANGED << jwt, verifiers, outcomes, accepted >>

\* Someone changes one byte of the claims segment of the raw string; the
\* caller parses the changed string in place of the token it held.
TamperClaims(i, c) ==
    /\ jwt # NoJwt
    /\ i \in 1..Len(jwt.claims)
    /\ c \in Chars \ {"."}
    /\ c # jwt.claims[i]
    /\ LET raw == jwt.header \o << "." >> \o [jwt.claims EXCEPT ![i] = c]
                     \o << "." >> \o jwt.signature
           r == with_str(raw)
       IN  /\ jwt' = r.val
           /\ result' = Call("tamper", NoVerifier, << >>, r, << >>)
    /\ handles' = << >>
    /\ accepted' = {v \in VerifierIds : "Ok" \in outcomes[v]}
    /\ outcomes' = NoOutcomes
    /\ UNCHANGED verifiers

\* Variant: a new handle takes the place of the ones handed out before.
HmacVerify_single_slot(v) ==
    /\ jwt # NoJwt
    /\ Len(handles) < MaxHandles
    /\ LET r == HmacVerifier_verify(verifiers[v], jwt)
       IN  /\ result' = Call("verify", v, << >>, r.ret, r.prim)
           /\ handles' = IF r.ret.ok THEN << r.ret.val >> ELSE handles
           /\ outcomes' = [outcomes EXCEPT ![v] = @ \cup {OutcomeOf(r.ret)}]
    /\ UNCHANGED << jwt, verifiers, accepted >>

\* hmac_verifier.verify(&unverified_jwt)
HmacVerify(v) ==
    /\ jwt # NoJwt
    /\ Len(handles) < MaxHandles
    /\ LET r == HmacVerifier_verify(verifiers[v], jwt)
       IN  /\ result' = Call("verify", v, << >>, r.ret, r.prim)
           /\ handles' = IF r.ret.ok THEN Append(handles, r.ret.val) ELSE handles
           /\ outcomes' = [outcomes EXCEPT ![v] = @ \cup {OutcomeOf(r.ret)}]
    /\ UNCHANGED << jwt, verifiers, accepted >>

\* public_key_verifier.verify(&unverified_jwt)
PublicKeyVerify(v) ==
    /\ jwt # NoJwt
    /\ Len(handles) < MaxHandles
    /\ LET r == PublicKeyVerifier_verify(verifiers[v], jwt)
       IN  /\ result' = Call("verify", v, << >>, r.ret, r.prim)
           /\ handles' = IF r.ret.ok THEN Append(handles, r.ret.val) ELSE handles
           /\ outcomes' = [outcomes EXCEPT ![v] = @ \cup {OutcomeOf(r.ret)}]
    /\ UNCHANGED << jwt, verifiers, accepted >>

\* Inputs of the decoupled entry point: with a token at hand, its signed data
\* and its signature as decoded out-of-band; without one, a one-byte message
\* and any one-byte or empty signature.
DataInputs ==
    IF jwt # NoJwt THEN {as_bytes(UnverifiedJwt_signed_data(jwt))}
    ELSE {as_bytes(<< c >>) : c \in B64Alphabet}
SignatureInputs ==
    IF jwt # NoJwt
    THEN {d.val : d \in {r \in {UnverifiedJwt_decode_signature(jwt)} : r.ok}}
    ELSE {<< >>} \cup {<< TagBytes[i] >> : i \in 1..Len(TagBytes)}

\* hmac_verifier.verify_data_with_decoded_signature(signed_data, decoded_signature)
HmacVerifyData(v, signed_data, decoded_signature) ==
    /\ LET r == HmacVerifier_verify_data_with_decoded_signature(
                    verifiers[v], signed_data, decoded_signature)
       IN  result' = Call("verify_data_with_decoded_signature", v,
                          << signed_data, decoded_signature >>, r.ret, r.prim)
    /\ UNCHANGED << jwt, handles, verifiers, outcomes, accepted >>

\* public_key_verifier.verify_data_with_decoded_signature(signed_data, decoded_signature)
PublicKeyVerifyData(v, signed_data, decoded_signature) ==
    /\ LET r == PublicKeyVerifier_verify_data_with_decoded_signature(
                    verifiers[v], signed_data, decoded_signature)
       IN  result' = Call("verify_data_with_decoded_signature", v,
                          << signed_data, decoded_signature >>, r.ret, r.prim)
    /\ UNCHANGED << jwt, handles, verifiers, outcomes, accepted >>

\* The accessors of a handle the caller holds.
DecodeHeader(h) ==
    /\ result' = Call("decode_header", NoVerifier, << >>,
                      SignatureVerifiedJwt_decode_header(handles[h]), << >>)
    /\ UNCHANGED << jwt, handles, verifiers, outcomes, accepted >>

DecodeClaims(h) ==
    /\ result' = Call("decode_claims", NoVerifier, << >>,
                      SignatureVerifiedJwt_decode_claims(handles[h]), << >>)
    /\ UNCHANGED << jwt, handles, verifiers, outcomes, accepted >>

DecodeSignature(h) ==
    /\ result' = Call("decode_signature", NoVerifier, << >>,
                      SignatureVerifiedJwt_decode_signature(handles[h]), << >>)
    /\ UNCHANGED << jwt, handles, verifiers, outcomes, accepted >>

SignedData(h) ==
    /\ result' = Call("signed_data", NoVerifier, << >>,
                      SignatureVerifiedJwt_signed_data(handles[h]), << >>)
    /\ UNCHANGED << jwt, handles, verifiers, outcomes, accepted >>

EncodedHeader(h) ==
    /\ result' = Call("encoded_header", NoVerifier, << >>,
                      SignatureVerifiedJwt_encoded_header(handles[h]), << >>)
    /\ UNCHANGED << jwt, handles, verifiers, outcomes, accepted >>

EncodedClaims(h) ==
    /\ result' = Call("encoded_claims", NoVerifier, << >>,
                      SignatureVerifiedJwt_encoded_claims(handles[h]), << >>)
    /\ UNCHANGED << jwt, handles, verifiers, outcomes, accepted >>

EncodedSignature(h) ==
    /\ result' = Call("encoded_signature", NoVerifier, << >>,
                      SignatureVerifiedJwt_encoded_signature(handles[h]), << >>)
    /\ UNCHANGED << jwt, handles, verifiers, outcomes, accepted >>

Next ==
    \/ \E raw \in RawInputs : WithStr(raw)
    \/ DropJwt
    \/ DropHandle
    \/ \E i \in 1..MaxRawLen, c \in Chars \ {"."} : TamperClaims(i, c)
    \/ \E v \in HmacIds : HmacVerify(v)
    \/ \E v \in PkIds : PublicKeyVerify(v)
    \/ \E v \in HmacIds, d \in DataInputs, s \in SignatureInputs : HmacVerifyData(v, d, s)
    \/ \E v \in PkIds, d \in DataInputs, s \in SignatureInputs : PublicKeyVerifyData(v, d, s)
    \/ \E h \in 1..Len(handles) : DecodeHeader(h)
    \/ \E h \in 1..Len(handles) : DecodeClaims(h)
    \/ \E h \in 1..Len(handles) : DecodeSignature(h)
    \/ \E h \in 1..Len(handles) : SignedData(h)
    \/ \E h \in 1..Len(handles) : EncodedHeader(h)
    \/ \E h \in 1..Len(handles) : EncodedClaims(h)
    \/ \E h \in 1..Len(handles) : EncodedSignature(h)

Spec == Init /\ [][Next]_vars

\* ----------------------------------------------------------------- claims
\* What the signature primitive answers for the token at hand under
\* verifier v, computed from the transmitted segments.
SignedBytes == as_bytes(jwt.header \o << "." >> \o jwt.claims)
SignatureDecodes == base64_decode(jwt.signature).ok
PrimitiveAccepts(v) ==
    /\ SignatureDecodes
    /\ base64_decode(jwt.signature).val = Tag(KeyOf(v, verifiers), SignedBytes)
Rejected(call) == call.sig # Tag(call.key, call.msg)
AccessorOps == {"decode_header", "decode_claims", "decode_signature", "signed_data",
                "encoded_header", "encoded_claims", "encoded_signature"}

\* C1: a SignatureVerifiedJwt exists only if an earlier verify call on that
\* same token returned success (the signature segment decoded and the
\* primitive accepted the signed data and decoded signature under that
\* verifier's key); only a successful verify step adds a handle, and the
\* handle references the token passed to verify.
C1_HandleOnlyFromSuccessfulVerify ==
    /\ [](\A h \in 1..Len(handles) :
            /\ handles[h].unverified_jwt = jwt
            /\ \E v \in VerifierIds : "Ok" \in outcomes[v] /\ PrimitiveAccepts(v))
    /\ [][Len(handles') > Len(handles) =>
            /\ result'.op = "verify"
            /\ result'.ret.ok
            /\ handles' = Append(handles, [unverified_jwt |-> jwt])]_vars

C1_Witness ==
    /\ result.op = "verify"
    /\ result.ret.ok
    /\ Len(handles) > 0

\* C2: for both verifier variants, the message verify hands to the primitive
\* is the bytes of signed_data() (encoded header, one ".", encoded claims)
\* and the signature is the result of decode_signature(), under the
\* verifier's own key; nothing else is handed to the primitive.
C2_PrimitiveSeesSignedData ==
    result.op = "verify" =>
        /\ Len(result.prim) <= 1
        /\ \A i \in 1..Len(result.prim) :
            /\ result.prim[i].msg = as_bytes(UnverifiedJwt_signed_data(jwt))
            /\ result.prim[i].msg = SignedBytes
            /\ Ok(result.prim[i].sig) = UnverifiedJwt_decode_signature(jwt)
            /\ result.prim[i].key = KeyOf(result.verifier, verifiers)

C2_Witness ==
    /\ result.op = "verify"
    /\ Len(result.prim) = 1
    /\ jwt.header # jwt.claims

\* C3: whenever the primitive rejects (key, signed data, decoded signature),
\* verify and verify_data_with_decoded_signature of both variants return
\* the InvalidSignature error, the same value whatever the cause, and no
\* handle.
C3_RejectionIsInvalidSignature ==
    /\ [](result.op \in {"verify", "verify_data_with_decoded_signature"} =>
            \A i \in 1..Len(result.prim) :
                Rejected(result.prim[i]) => result.ret = Err(invalid_signature))
    /\ [][result'.op = "verify" /\ result'.ret = Err(invalid_signature) =>
            handles' = handles]_vars

C3_Witness ==
    /\ result.op = "verify"
    /\ result.verifier \in HmacIds
    /\ Len(result.prim) = 1
    /\ Rejected(result.prim[1])
    /\ outcomes["pkA"] = {"InvalidSignature"}

\* C4: when the signature segment is not valid base64url, verify of both
\* variants fails with the decode error, not InvalidSignature, and the
\* primitive is not invoked in that call.
C4_DecodeGatesPrimitive ==
    result.op = "verify" /\ ~SignatureDecodes =>
        /\ result.ret = Err(InvalidEncoding)
        /\ result.prim = << >>

C4_Witness ==
    /\ result.op = "verify"
    /\ \E i \in 1..Len(jwt.signature) : jwt.signature[i] \notin B64Alphabet
    /\ result.ret = Err(InvalidEncoding)

\* C5: when a token verified under a key, the token with one byte of the
\* claims segment changed (header and signature kept) fails verification
\* under that key with InvalidSignature.
C5_TamperedClaimsFail ==
    \A v \in accepted : outcomes[v] \subseteq {"InvalidSignature"}

C5_Witness ==
    \E v \in accepted :
        /\ outcomes[v] = {"InvalidSignature"}
        /\ result.op = "verify"
        /\ result.verifier = v

\* C6: any two verify calls of one verifier on one token return the same
\* outcome, whatever other calls happen in between.
C6_VerifyDeterministic ==
    \A v \in VerifierIds : Cardinality(outcomes[v]) <= 1

C6_Witness ==
    /\ Len(handles) >= 2
    /\ \E v \in VerifierIds : outcomes[v] = {"Ok"}
    /\ \E v \in VerifierIds : outcomes[v] = {"InvalidSignature"}

\* C7: a verify call changes neither the token nor any verifier's key;
\* whatever attempts failed before, a verify under the key the token was
\* signed with succeeds and adds a handle of its own, and a failed verify
\* adds none.
C7_VerifyIndependent ==
    [][result'.op = "verify" =>
        /\ jwt' = jwt
        /\ verifiers' = verifiers
        /\ IF PrimitiveAccepts(result'.verifier)
           THEN /\ result'.ret.ok
                /\ handles' = Append(handles, [unverified_jwt |-> jwt])
           ELSE /\ ~result'.ret.ok
                /\ handles' = handles]_vars

C7_Witness ==
    /\ Len(handles) = 2
    /\ result.op = "verify"
    /\ result.ret.ok
    /\ \E v \in VerifierIds \ {result.verifier} : outcomes[v] = {"InvalidSignature"}

C9_SignedDataAndSignature ==
    /\ \A h \in 1..Len(handles) :
        /\ SignatureVerifiedJwt_signed_data(handles[h]) =
             SignatureVerifiedJwt_encoded_header(handles[h]) \o << "." >>
                 \o SignatureVerifiedJwt_encoded_claims(handles[h])
        /\ SignatureVerifiedJwt_decode_signature(handles[h]) =
             base64_decode(SignatureVerifiedJwt_encoded_signature(handles[h]))
    /\ result.op = "verify" /\ result.ret.ok =>
         SignatureVerifiedJwt_decode_signature(result.ret.val) = Ok(result.prim[1].sig)
    /\ result.op = "signed_data" =>
         result.ret = jwt.header \o << "." >> \o jwt.claims

C9_Witness ==
    /\ result.op = "signed_data"
    /\ Len(jwt.header) = 1
    /\ Len(handles) > 0

\* C10: the outcome of verify does not depend on whether the header or
\* claims segment is valid base64url; a token with a malformed claims
\* segment and a matching signature verifies, and decode_claims or
\* decode_header on its handle then fails with the decode error, never with
\* InvalidSignature.
C10_VerifyIgnoresClaimsEncoding ==
    /\ result.op = "verify" =>
         /\ result.ret.ok <=> PrimitiveAccepts(result.verifier)
         /\ ~result.ret.ok =>
              result.ret.err = IF SignatureDecodes THEN invalid_signature
                               ELSE InvalidEncoding
    /\ result.op = "decode_claims" =>
         IF base64_decode(jwt.claims).ok THEN result.ret.ok
         ELSE result.ret = Err(InvalidEncoding)
    /\ result.op = "decode_header" =>
         IF base64_decode(jwt.header).ok THEN result.ret.ok
         ELSE result.ret = Err(InvalidEncoding)

C10_Witness ==
    /\ result.op = "decode_claims"
    /\ result.ret = Err(InvalidEncoding)
    /\ \E i \in 1..Len(jwt.claims) : jwt.claims[i] \notin B64Alphabet
    /\ \E v \in VerifierIds : outcomes[v] = {"Ok"}

====
